---- MODULE Spec2Model ----
(***************************************************************************)
(* The ventilator / worker / sink pipeline of bert_serving.server          *)
(* (src/server/bert_serving/server/__init__.py).                           *)
(*                                                                         *)
(* Byte strings are sequences of one-character strings, so that the job-id *)
(* framing (client + '#' + req_id, job_id + '@' + offset) and its parsing  *)
(* in the sink (bytes.split, int) are computed and not assumed.            *)
(***************************************************************************)
EXTENDS Integers, Sequences, FiniteSets, TLC

\* ---------------------------------------------------------------- bounds
\* encode requests the clients submit in one behaviour
MaxReq == 2
\* SHOW_CONFIG requests the clients submit in one behaviour
MaxCfg == 1
\* requests the ventilator's ValueError handler logs in one behaviour
MaxErr == 1
\* largest batch a client submits is max_batch_size + ExtraItems
ExtraItems == 1
\* largest batch of the ventilator-only specification is
\* max_batch_size + VentExtraItems
VentExtraItems == 3
\* placeholder results a worker's pipe holds at most
MaxPipe == 2
\* 'context is closed!' errors the ventilator logs in one behaviour
MaxClosed == 2

\* ---------------------------------------------------------------- configuration
\* args.max_batch_size
max_batch_size == 2
\* args.num_worker
num_worker == 2

Workers == 1..num_worker

\* ---------------------------------------------------------------- byte strings
Digits == <<"0", "1", "2", "3", "4", "5", "6", "7", "8", "9">>

IsDigit(c) == \E d \in 1..10 : Digits[d] = c

DigitVal(c) == (CHOOSE d \in 1..10 : Digits[d] = c) - 1

\* b'%d' % n, n >= 0
RECURSIVE Dec(_)
Dec(n) == IF n < 10 THEN <<Digits[n + 1]>>
          ELSE Dec(n \div 10) \o <<Digits[(n % 10) + 1]>>

\* int(s) succeeds (over the alphabet of this model: decimal digits only)
IsInt(s) == Len(s) > 0 /\ \A i \in 1..Len(s) : IsDigit(s[i])

\* int(s) for IsInt(s)
RECURSIVE IntOf(_)
IntOf(s) == IF Len(s) = 0 THEN 0
            ELSE 10 * IntOf(SubSeq(s, 1, Len(s) - 1)) + DigitVal(s[Len(s)])

\* s.split(sep): the list of the pieces of s between the occurrences of sep
RECURSIVE SplitAcc(_, _, _, _)
SplitAcc(s, sep, i, cur) ==
    IF i > Len(s) THEN <<cur>>
    ELSE IF s[i] = sep THEN <<cur>> \o SplitAcc(s, sep, i + 1, <<>>)
    ELSE SplitAcc(s, sep, i + 1, Append(cur, s[i]))

Split(s, sep) == SplitAcc(s, sep, 1, <<>>)

\* job_id = client + b'#' + req_id
JobIdOf(client, req_id) == client \o <<"#">> \o req_id

\* partial_job_id = job_id + b'@%d' % s_idx
PartialJobId(job_id, s_idx) == job_id \o <<"@">> \o Dec(s_idx)

\* ---------------------------------------------------------------- inputs
\* ServerCommand
show_config == "SHOW_CONFIG"
new_job == "REGISTER"

\* client addresses: a plain one, and one that carries both sentinels and
\* whose job ids the sink parses as chunks of the job a#1
ClientA == <<"a">>
ClientS == <<"a", "#", "1", "@">>

\* request ids: decimal ones, and one that int() rejects
ReqOne == <<"1">>
ReqTwo == <<"2">>
ReqBad == <<"x">>

BatchSizes == 1..(max_batch_size + ExtraItems)

\* the n items a client submits under (client, req_id), in submission order
Batch(client, req_id, n) == [i \in 1..n |-> [c |-> client, r |-> req_id, i |-> i]]

\* payload frames: the SHOW_CONFIG sentinel, a JSON list of items, or bytes
\* that are not JSON
ShowConfigPayload == [kind |-> "show_config", seqs |-> <<>>]
GarbagePayload == [kind |-> "garbage", seqs |-> <<>>]
NumberPayload == [kind |-> "number", seqs |-> <<>>]
ListPayload(client, req_id, n) == [kind |-> "list", seqs |-> Batch(client, req_id, n)]

\* the (client, req_id) pairs under which batches are submitted
Submitters == {<<ClientA, ReqOne>>, <<ClientA, ReqTwo>>, <<ClientS, ReqTwo>>}

\* envelopes a client can push to the frontend: three frames, two, or four
Requests ==
    {<<s[1], ListPayload(s[1], s[2], n), s[2]>> : s \in Submitters, n \in BatchSizes}
    \cup {<<ClientA, ListPayload(ClientA, ReqBad, 1), ReqBad>>,
          <<ClientA, GarbagePayload, ReqOne>>,
          <<ClientA, NumberPayload, ReqOne>>,
          <<ClientA, ShowConfigPayload, ReqOne>>,
          <<ClientA, ShowConfigPayload, ReqBad>>,
          <<ClientA, ShowConfigPayload>>,
          <<ClientA, ListPayload(ClientA, ReqOne, 1), ReqOne, ReqOne>>}

\* ---------------------------------------------------------------- state
VARIABLES
    context,            \* "open", or "terminated" once the ZeroMQ context is terminated
    vent_closed,        \* BertServer.run: ContextTerminated errors caught so far
    vent_exc,           \* "none", or the exception that ended BertServer.run
    vent_sent,          \* sockets the ventilator sent on in its last turn, in order
    request,            \* BertServer.run: request, the envelope received last
    num_req,            \* BertServer.run: num_req
    vent_err,           \* BertServer.run: requests logged by the ValueError handler
    err_log,            \* the frame counts 'got %d' the ValueError handler logged, in order
    num_cfg,            \* SHOW_CONFIG requests forwarded so far (history)
    accepted,           \* <<client, req_id>> -> num_seqs of the registered jobs (history)
    pair,               \* ventilator -> sink PAIR socket, in flight
    backend,            \* ventilator -> workers PUSH socket, in flight
    receiver,           \* worker -> sink PUSH/PULL pipes, one per worker, in flight
    pending_checksum,   \* BertSink.run: pending_checksum
    pending_result,     \* BertSink.run: pending_result, in insertion order
    job_checksum,       \* BertSink.run: job_checksum
    published,          \* what the sink's PUB socket has sent, in order
    sink_exc            \* "none", or the exception that ended BertSink.run

vars == <<context, vent_closed, vent_exc, vent_sent, request, num_req, vent_err, err_log,
          num_cfg, accepted, pair, backend, receiver,
          pending_checksum, pending_result, job_checksum, published, sink_exc>>

ventVars == <<context, vent_closed, vent_exc, vent_sent, request, num_req, vent_err, err_log,
              num_cfg, accepted>>
shutdownVars == <<context, vent_closed>>
sinkVars == <<pending_checksum, pending_result, job_checksum, published, sink_exc>>

Empty == [x \in {} |-> 0]

Init ==
    /\ context = "open"
    /\ vent_closed = 0
    /\ vent_exc = "none"
    /\ vent_sent = <<>>
    /\ request = <<>>
    /\ num_req = 0
    /\ vent_err = 0
    /\ err_log = <<>>
    /\ num_cfg = 0
    /\ accepted = Empty
    /\ pair = <<>>
    /\ backend = <<>>
    /\ receiver = [w \in Workers |-> <<>>]
    /\ pending_checksum = Empty
    /\ pending_result = <<>>
    /\ job_checksum = Empty
    /\ published = <<>>
    /\ sink_exc = "none"

\* ---------------------------------------------------------------- ventilator
Min(a, b) == IF a < b THEN a ELSE b

\* seqs[a:b] for 0 <= a, 0 <= b
Slice(seqs, a, b) == SubSeq(seqs, a + 1, Min(b, Len(seqs)))

\* PartitionFrom labelling each chunk with the offset of its end
RECURSIVE PartitionFromEndLabel(_, _, _)
PartitionFromEndLabel(seqs, job_id, s_idx) ==
    IF s_idx < Len(seqs)
    THEN LET tmp == Slice(seqs, s_idx, s_idx + max_batch_size)
         IN  (IF tmp # <<>>
              THEN <<[id |-> PartialJobId(job_id, s_idx + Len(tmp)), msg |-> tmp]>>
              ELSE <<>>)
             \o PartitionFromEndLabel(seqs, job_id, s_idx + Len(tmp))
    ELSE <<>>

\* the while loop that partitions a large batch: the chunks it sends, in order
RECURSIVE PartitionFrom(_, _, _)
PartitionFrom(seqs, job_id, s_idx) ==
    IF s_idx < Len(seqs)
    THEN LET tmp == Slice(seqs, s_idx, s_idx + max_batch_size)
         IN  (IF tmp # <<>>
              THEN <<[id |-> PartialJobId(job_id, s_idx), msg |-> tmp]>>
              ELSE <<>>)
             \o PartitionFrom(seqs, job_id, s_idx + Len(tmp))
    ELSE <<>>

\* what the ventilator pushes to the backend for one batch
Chunks(seqs, job_id) ==
    IF Len(seqs) > max_batch_size
    THEN PartitionFrom(seqs, job_id, 0)
    ELSE <<[id |-> job_id, msg |-> seqs]>>

\* NewJobMsg announcing the size of the first chunk
NewJobMsgFirstChunk(client, num_seqs, req_id) ==
    [client_addr |-> client, msg_type |-> new_job,
     msg_info |-> Dec(Min(num_seqs, max_batch_size)), req_id |-> req_id]

\* the NEW_JOB frames sent on the pair socket
NewJobMsg(client, num_seqs, req_id) ==
    [client_addr |-> client, msg_type |-> new_job,
     msg_info |-> Dec(num_seqs), req_id |-> req_id]

\* the sockets an encode turn sends on, in the order of its sends: the pair
\* socket to the sink first, then the backend once per chunk
SendOrder(chunks) == <<"sink">> \o [i \in 1..Len(chunks) |-> "backend"]

\* the SHOW_CONFIG frames sent on the pair socket
ConfigMsg(client, req_id) ==
    [client_addr |-> client, msg_type |-> show_config,
     msg_info |-> [client |-> client, num_request |-> num_req], req_id |-> req_id]

\* except ValueError: log the frame count of request, and go on with the loop
VentLogError ==
    /\ vent_err < MaxErr
    /\ vent_err' = vent_err + 1
    /\ err_log' = Append(err_log, Len(request'))

\* VentWrongFrames counting the envelope as a request
VentWrongFramesCounted(req) ==
    /\ context = "open"
    /\ vent_exc = "none"
    /\ request' = req
    /\ UNCHANGED vent_exc
    /\ vent_sent' = <<>>
    /\ UNCHANGED shutdownVars
    /\ Len(req) # 3
    /\ num_req' = num_req + 1
    /\ VentLogError
    /\ UNCHANGED <<num_cfg, accepted, pair, backend, receiver>>
    /\ UNCHANGED sinkVars

\* request = recv_multipart(); client, msg, req_id = request  fails
VentWrongFrames(req) ==
    /\ context = "open"
    /\ vent_exc = "none"
    /\ request' = req
    /\ UNCHANGED vent_exc
    /\ vent_sent' = <<>>
    /\ UNCHANGED shutdownVars
    /\ Len(req) # 3
    /\ VentLogError
    /\ UNCHANGED <<num_req, num_cfg, accepted, pair, backend, receiver>>
    /\ UNCHANGED sinkVars

\* three frames, but int(req_id) in the log line raises ValueError
VentBadReqId(req) ==
    /\ context = "open"
    /\ vent_exc = "none"
    /\ request' = req
    /\ UNCHANGED vent_exc
    /\ vent_sent' = <<>>
    /\ UNCHANGED shutdownVars
    /\ Len(req) = 3
    /\ ~IsInt(req[3])
    /\ VentLogError
    /\ UNCHANGED <<num_req, num_cfg, accepted, pair, backend, receiver>>
    /\ UNCHANGED sinkVars

\* msg == ServerCommand.show_config
VentShowConfig(req) ==
    /\ context = "open"
    /\ vent_exc = "none"
    /\ request' = req
    /\ UNCHANGED vent_exc
    /\ vent_sent' = <<"sink">>
    /\ UNCHANGED shutdownVars
    /\ Len(req) = 3
    /\ req[2].kind = "show_config"
    /\ IsInt(req[3])
    /\ num_cfg < MaxCfg
    /\ num_cfg' = num_cfg + 1
    /\ pair' = Append(pair, ConfigMsg(req[1], req[3]))
    /\ UNCHANGED <<num_req, vent_err, err_log, accepted, backend, receiver>>
    /\ UNCHANGED sinkVars

\* an encode request whose payload jsonapi.loads rejects: num_req is already
\* incremented when ValueError is raised
VentBadPayload(req) ==
    /\ context = "open"
    /\ vent_exc = "none"
    /\ request' = req
    /\ UNCHANGED vent_exc
    /\ vent_sent' = <<>>
    /\ UNCHANGED shutdownVars
    /\ Len(req) = 3
    /\ req[2].kind = "garbage"
    /\ IsInt(req[3])
    /\ num_req < MaxReq
    /\ num_req' = num_req + 1
    /\ VentLogError
    /\ UNCHANGED <<num_cfg, accepted, pair, backend, receiver>>
    /\ UNCHANGED sinkVars

\* an encode request whose payload jsonapi.loads decodes to a number:
\* len(seqs) raises TypeError, which no handler of the loop catches, and
\* BertServer.run ends; num_req is already incremented
VentNotAList(req) ==
    /\ context = "open"
    /\ vent_exc = "none"
    /\ request' = req
    /\ vent_sent' = <<>>
    /\ UNCHANGED shutdownVars
    /\ Len(req) = 3
    /\ req[2].kind = "number"
    /\ IsInt(req[3])
    /\ num_req < MaxReq
    /\ num_req' = num_req + 1
    /\ vent_exc' = "TypeError"
    /\ UNCHANGED <<vent_err, err_log, num_cfg, accepted, pair, backend, receiver>>
    /\ UNCHANGED sinkVars

\* an encode request: register the job at the sink, push its chunks.
\* A client does not reuse a (client, req_id) pair.
VentEncode(req) ==
    /\ context = "open"
    /\ vent_exc = "none"
    /\ request' = req
    /\ UNCHANGED vent_exc
    /\ UNCHANGED shutdownVars
    /\ Len(req) = 3
    /\ req[2].kind = "list"
    /\ IsInt(req[3])
    /\ num_req < MaxReq
    /\ <<req[1], req[3]>> \notin DOMAIN accepted
    /\ LET client == req[1]
           req_id == req[3]
           seqs == req[2].seqs
           num_seqs == Len(seqs)
           job_id == JobIdOf(client, req_id)
       IN  /\ num_req' = num_req + 1
           /\ pair' = Append(pair, NewJobMsg(client, num_seqs, req_id))
           /\ backend' = backend \o Chunks(seqs, job_id)
           /\ vent_sent' = SendOrder(Chunks(seqs, job_id))
           /\ accepted' = [k \in DOMAIN accepted \cup {<<client, req_id>>} |->
                             IF k = <<client, req_id>> THEN num_seqs ELSE accepted[k]]
    /\ UNCHANGED <<vent_err, err_log, num_cfg, receiver>>
    /\ UNCHANGED sinkVars

\* recv_multipart raises ContextTerminated: the handler inside the while
\* loop logs 'context is closed!', and the loop goes round again
VentContextTerminated ==
    /\ context = "terminated"
    /\ vent_exc = "none"
    /\ vent_closed < MaxClosed
    /\ vent_closed' = vent_closed + 1
    /\ vent_sent' = <<>>
    /\ UNCHANGED <<context, vent_exc, request, num_req, vent_err, err_log, num_cfg,
                   accepted>>
    /\ UNCHANGED <<pair, backend, receiver>>
    /\ UNCHANGED sinkVars

\* ---------------------------------------------------------------- worker
\* the encoder: one row per item, in the order of the items
Encode(items) == [i \in 1..Len(items) |-> [row_of |-> items[i]]]

\* send_ndarray(sink, r['client_id'], r['encodes'])
ResultMsg(client_id, X) == [id |-> client_id, X |-> X]

\* one turn of the worker's loop on the drain path of input_fn_builder (the
\* generator body that the source keeps commented out, lines 449-462):
\* receive a chunk from the backend, encode it, send the result to the sink
\* under the chunk's id. Any worker may receive the chunk at the head of the
\* backend; the results of one worker reach the sink in the order sent.
WorkerRun(w) ==
    /\ context = "open"
    /\ backend # <<>>
    /\ LET chunk == Head(backend)
       IN  receiver' = [receiver EXCEPT
                          ![w] = Append(@, ResultMsg(chunk.id, Encode(chunk.msg)))]
    /\ backend' = Tail(backend)
    /\ UNCHANGED <<pair>>
    /\ UNCHANGED ventVars
    /\ UNCHANGED sinkVars

\* the example the generator of input_fn_builder yields as it stands
Placeholder == [c |-> <<>>, r |-> <<>>, i |-> 0]

\* one turn of the worker's loop on the generator of input_fn_builder as it
\* stands: no chunk is received, the placeholder example is encoded and sent
\* to the sink under the client id 'test'
WorkerStub(w) ==
    /\ context = "open"
    /\ Len(receiver[w]) < MaxPipe
    /\ receiver' = [receiver EXCEPT
                      ![w] = Append(@, ResultMsg(<<"t", "e", "s", "t">>,
                                                 Encode(<<Placeholder>>)))]
    /\ UNCHANGED <<pair, backend>>
    /\ UNCHANGED ventVars
    /\ UNCHANGED sinkVars

\* ---------------------------------------------------------------- sink
\* pending_result is a dict in insertion order: a sequence of [job, parts]
HasKey(d, k) == \E i \in 1..Len(d) : d[i].job = k

Keys(d) == {d[i].job : i \in 1..Len(d)}

\* AppendPart appending e to the list of every pending job
AppendPartAll(d, k, e) ==
    IF HasKey(d, k)
    THEN [i \in 1..Len(d) |-> [job |-> d[i].job, parts |-> Append(d[i].parts, e)]]
    ELSE Append(d, [job |-> k, parts |-> <<e>>])

\* pending_result[job_id].append(e) on a defaultdict(list)
AppendPart(d, k, e) ==
    IF HasKey(d, k)
    THEN [i \in 1..Len(d) |-> IF d[i].job = k
                               THEN [job |-> k, parts |-> Append(d[i].parts, e)]
                               ELSE d[i]]
    ELSE Append(d, [job |-> k, parts |-> <<e>>])

\* d.pop(k)
RECURSIVE PopKey(_, _)
PopKey(d, k) ==
    IF d = <<>> THEN <<>>
    ELSE IF Head(d).job = k THEN Tail(d)
    ELSE <<Head(d)>> \o PopKey(Tail(d), k)

\* f.pop(k) on a dict whose order is never read
Without(f, k) == [x \in DOMAIN f \ {k} |-> f[x]]

\* f[k] = v
With(f, k, v) == [x \in DOMAIN f \cup {k} |-> IF x = k THEN v ELSE f[x]]

\* Count that forgets what was tallied: pending_checksum[k] = rows, not +=
CountFresh(f, k) == 0

\* pending_checksum[k] on a defaultdict(int)
Count(f, k) == IF k \in DOMAIN f THEN f[k] ELSE 0

\* one insertion of the stable sort: e goes after every element whose key is
\* not larger
InsertByPartialId(sorted, e) ==
    LET n == Cardinality({i \in 1..Len(sorted) :
                            IntOf(sorted[i].partial_id) <= IntOf(e.partial_id)})
    IN  SubSeq(sorted, 1, n) \o <<e>> \o SubSeq(sorted, n + 1, Len(sorted))

\* sorted(tmp, key=lambda x: int(x[1]))
RECURSIVE SortedByPartialId(_)
SortedByPartialId(tmp) ==
    IF tmp = <<>> THEN <<>>
    ELSE InsertByPartialId(SortedByPartialId(SubSeq(tmp, 1, Len(tmp) - 1)), tmp[Len(tmp)])

\* np.concatenate([x[0] for x in tmp], axis=0)
RECURSIVE Concatenate(_)
Concatenate(tmp) ==
    IF tmp = <<>> THEN <<>> ELSE Head(tmp).X \o Concatenate(Tail(tmp))

\* send_ndarray(sender, client_addr, X, req_id)
NdarrayMsg(client_addr, X, req_id) ==
    [type |-> "ndarray", to |-> client_addr, X |-> X, req_id |-> req_id]

\* SendBack that forgets job_checksum.pop(job_info)
RECURSIVE SendBackKeepChecksum(_, _)
SendBackKeepChecksum(finished, st) ==
    IF finished = <<>> THEN st
    ELSE LET job_info == Head(finished).job
             tmp == Head(finished).parts
             addr == Split(job_info, "#")
         IN  IF \E i \in 1..Len(tmp) : ~IsInt(tmp[i].partial_id)
             THEN [st EXCEPT !.exc = "ValueError"]
             ELSE IF Len(addr) # 2
             THEN [st EXCEPT !.exc = "ValueError"]
             ELSE SendBackKeepChecksum(Tail(finished),
                    [st EXCEPT
                       !.pub = Append(@, NdarrayMsg(addr[1],
                                   Concatenate(SortedByPartialId(tmp)), addr[2])),
                       !.pr = PopKey(@, job_info),
                       !.pc = Without(@, job_info)])

\* the for loop over the finished jobs, from the sink state st: sort, split
\* the job id, publish, pop the three entries; an exception ends the loop
\* with what was done so far
RECURSIVE SendBack(_, _)
SendBack(finished, st) ==
    IF finished = <<>> THEN st
    ELSE LET job_info == Head(finished).job
             tmp == Head(finished).parts
             addr == Split(job_info, "#")
         IN  IF \E i \in 1..Len(tmp) : ~IsInt(tmp[i].partial_id)
             THEN [st EXCEPT !.exc = "ValueError"]
             ELSE IF Len(addr) # 2
             THEN [st EXCEPT !.exc = "ValueError"]
             ELSE SendBack(Tail(finished),
                    [st EXCEPT
                       !.pub = Append(@, NdarrayMsg(addr[1],
                                   Concatenate(SortedByPartialId(tmp)), addr[2])),
                       !.pr = PopKey(@, job_info),
                       !.pc = Without(@, job_info),
                       !.jc = Without(@, job_info)])

\* Finished selecting the jobs that have received at least what is expected
FinishedAtLeast(pr, pc, jc) ==
    SelectSeq(pr, LAMBDA e : Count(pc, e.job) >= jc[e.job])

\* the jobs the completion check selects, in dict order
Finished(pr, pc, jc) ==
    SelectSeq(pr, LAMBDA e : Count(pc, e.job) = jc[e.job])

\* partial_id = job_info[1] if len(job_info) == 2 else 0
PartialIdOf(id) ==
    LET job_info == Split(id, "@")
    IN  IF Len(job_info) = 2 THEN job_info[2] ELSE Dec(0)

\* the receiver branch of the sink's loop on one worker message, from the
\* sink state st
OnResult(st, msg) ==
    LET job_info == Split(msg.id, "@")
        job_id == job_info[1]
        partial_id == PartialIdOf(msg.id)
        pr1 == AppendPart(st.pr, job_id, [X |-> msg.X, partial_id |-> partial_id])
        pc1 == With(st.pc, job_id, Count(st.pc, job_id) + Len(msg.X))
        st1 == [st EXCEPT !.pr = pr1, !.pc = pc1]
    IN  IF job_id \notin DOMAIN st.jc
        THEN [st1 EXCEPT !.exc = "KeyError"]
        ELSE IF \E k \in Keys(pr1) : k \notin DOMAIN st.jc
        THEN [st1 EXCEPT !.exc = "KeyError"]
        ELSE SendBack(Finished(pr1, pc1, st.jc), st1)

SinkState ==
    [pr |-> pending_result, pc |-> pending_checksum, jc |-> job_checksum,
     pub |-> published, exc |-> sink_exc]

SetSinkState(st) ==
    /\ pending_result' = st.pr
    /\ pending_checksum' = st.pc
    /\ job_checksum' = st.jc
    /\ published' = st.pub
    /\ sink_exc' = st.exc

\* socks.get(receiver) == zmq.POLLIN: the message at the head of a worker's pipe
SinkRecvResult ==
    /\ context = "open"
    /\ sink_exc = "none"
    /\ \E w \in Workers :
        /\ receiver[w] # <<>>
        /\ SetSinkState(OnResult(SinkState, Head(receiver[w])))
        /\ receiver' = [receiver EXCEPT ![w] = Tail(@)]
    /\ UNCHANGED <<pair, backend>>
    /\ UNCHANGED ventVars

\* the frontend branch of the sink's loop on one control message
OnControl(st, msg) ==
    IF msg.msg_type = new_job
    THEN [st EXCEPT !.jc = With(@, JobIdOf(msg.client_addr, msg.req_id),
                                IntOf(msg.msg_info))]
    ELSE IF msg.msg_type = show_config
    THEN [st EXCEPT !.pub = Append(@, [type |-> "config", to |-> msg.client_addr,
                                      info |-> msg.msg_info, req_id |-> msg.req_id])]
    ELSE st

\* socks.get(frontend) == zmq.POLLIN
SinkRecvControl ==
    /\ context = "open"
    /\ sink_exc = "none"
    /\ pair # <<>>
    /\ SetSinkState(OnControl(SinkState, Head(pair)))
    /\ pair' = Tail(pair)
    /\ UNCHANGED <<backend, receiver>>
    /\ UNCHANGED ventVars

\* poll or recv_multipart raises ContextTerminated: the handler around the
\* while loop logs 'context is closed!', and run returns
SinkContextTerminated ==
    /\ context = "terminated"
    /\ sink_exc = "none"
    /\ sink_exc' = "ContextTerminated"
    /\ UNCHANGED <<pending_checksum, pending_result, job_checksum, published>>
    /\ UNCHANGED <<pair, backend, receiver>>
    /\ UNCHANGED ventVars

\* ---------------------------------------------------------------- shutdown
\* the ZeroMQ context is terminated: from now on every receive raises
\* ContextTerminated
ContextTerm ==
    /\ context = "open"
    /\ context' = "terminated"
    /\ UNCHANGED <<vent_closed, vent_exc, vent_sent, request, num_req, vent_err, err_log,
                   num_cfg, accepted>>
    /\ UNCHANGED <<pair, backend, receiver>>
    /\ UNCHANGED sinkVars

\* ---------------------------------------------------------------- specification
\* the pipeline with the workers on the drain path
Next ==
    \/ \E req \in Requests : VentWrongFrames(req)
    \/ \E req \in Requests : VentBadReqId(req)
    \/ \E req \in Requests : VentShowConfig(req)
    \/ \E req \in Requests : VentBadPayload(req)
    \/ \E req \in Requests : VentNotAList(req)
    \/ \E req \in Requests : VentEncode(req)
    \/ \E w \in Workers : WorkerRun(w)
    \/ SinkRecvResult
    \/ SinkRecvControl

Spec == Init /\ [][Next]_vars

\* the ventilator alone, on batches of no item up to max_batch_size +
\* VentExtraItems items: what it pushes stays in the backend
VentRequests ==
    Requests
    \cup {<<ClientA, ListPayload(ClientA, r, n), r>> :
            r \in {ReqOne, ReqTwo}, n \in 0..(max_batch_size + VentExtraItems)}

NextVent ==
    \/ \E req \in VentRequests : VentWrongFrames(req)
    \/ \E req \in VentRequests : VentBadReqId(req)
    \/ \E req \in VentRequests : VentShowConfig(req)
    \/ \E req \in VentRequests : VentBadPayload(req)
    \/ \E req \in VentRequests : VentNotAList(req)
    \/ \E req \in VentRequests : VentEncode(req)

SpecVent == Init /\ [][NextVent]_vars

\* the pipeline on well-formed encode requests alone
EncodeRequests ==
    {req \in Requests : Len(req) = 3 /\ req[2].kind = "list" /\ IsInt(req[3])}

NextPipe ==
    \/ \E req \in EncodeRequests : VentEncode(req)
    \/ \E w \in Workers : WorkerRun(w)
    \/ SinkRecvResult
    \/ SinkRecvControl

SpecPipe == Init /\ [][NextPipe]_vars

\* the pipeline with a shutdown: the context can be terminated at any time
NextTerm ==
    \/ \E req \in Requests : VentWrongFrames(req)
    \/ \E req \in Requests : VentBadReqId(req)
    \/ \E req \in Requests : VentShowConfig(req)
    \/ \E req \in Requests : VentBadPayload(req)
    \/ \E req \in Requests : VentNotAList(req)
    \/ \E req \in Requests : VentEncode(req)
    \/ \E w \in Workers : WorkerRun(w)
    \/ SinkRecvResult
    \/ SinkRecvControl
    \/ ContextTerm
    \/ VentContextTerminated
    \/ SinkContextTerminated

SpecTerm == Init /\ [][NextTerm]_vars

\* the pipeline with the workers on the placeholder generator, which is the
\* generator the source runs as it stands
NextStub ==
    \/ \E req \in Requests : VentWrongFrames(req)
    \/ \E req \in Requests : VentBadReqId(req)
    \/ \E req \in Requests : VentShowConfig(req)
    \/ \E req \in Requests : VentBadPayload(req)
    \/ \E req \in Requests : VentNotAList(req)
    \/ \E req \in Requests : VentEncode(req)
    \/ \E w \in Workers : WorkerStub(w)
    \/ SinkRecvResult
    \/ SinkRecvControl

SpecStub == Init /\ [][NextStub]_vars

\* ---------------------------------------------------------------- properties
\* the step is the ventilator's handling of an encode request it registers
EncodeStep == accepted' # accepted

\* the chunks the step pushes to the backend, in the order pushed
Pushed == SubSeq(backend', Len(backend) + 1, Len(backend'))

RECURSIVE SumLen(_, _)
SumLen(chunks, k) == IF k = 0 THEN 0 ELSE SumLen(chunks, k - 1) + Len(chunks[k].msg)

\* chunks are contiguous slices of seqs of 1..max_batch_size items, in
\* increasing offset order, each labelled job_id@offset, covering seqs once
IsPartition(seqs, job_id, chunks) ==
    /\ \A k \in 1..Len(chunks) :
        LET off == SumLen(chunks, k - 1)
            size == Len(chunks[k].msg)
        IN  /\ size >= 1
            /\ size <= max_batch_size
            /\ off + size <= Len(seqs)
            /\ chunks[k].msg = SubSeq(seqs, off + 1, off + size)
            /\ chunks[k].id = job_id \o <<"@">> \o Dec(off)
    /\ SumLen(chunks, Len(chunks)) = Len(seqs)

\* the tensors the sink has published, as indices into published
Delivered == {i \in 1..Len(published) : published[i].type = "ndarray"}

\* the (client, req_id) pair a published message is addressed to
KeyOf(p) == <<p.to, p.req_id>>

\* no client with a sentinel in its address has submitted a batch
PlainAddresses == \A k \in DOMAIN accepted : k[1] # ClientS

\* the published tensor p holds the rows of its job's batch in submission order
InSubmissionOrder(p) ==
    /\ KeyOf(p) \in DOMAIN accepted
    /\ p.X = Encode(Batch(p.to, p.req_id, accepted[KeyOf(p)]))

\* C1: the tensor published for a job whose batch was split into chunks has
\* the rows of the job's partial tensors in ascending offset order, that is
\* in the client's submission order, whatever order the partials arrived in
C1_SubmissionOrder ==
    \A i \in Delivered :
        (KeyOf(published[i]) \in DOMAIN accepted
           /\ accepted[KeyOf(published[i])] > max_batch_size)
        => InSubmissionOrder(published[i])

\* C1 without sentinel-bearing client addresses
C1_PlainSubmissionOrder == PlainAddresses => C1_SubmissionOrder

\* the published tensor p has as many rows as its job's batch has items, and
\* the row of every item of the batch exactly once
EachItemOnce(p) ==
    /\ KeyOf(p) \in DOMAIN accepted
    /\ Len(p.X) = accepted[KeyOf(p)]
    /\ \A n \in 1..accepted[KeyOf(p)] :
         Cardinality({j \in 1..Len(p.X) :
                        p.X[j].row_of = [c |-> p.to, r |-> p.req_id, i |-> n]}) = 1

\* C2: every published tensor has as many rows as the client's batch had
\* items (the registered expected count), and uses every partial of its job
\* exactly once
C2_CountAndOnce == \A i \in Delivered : EachItemOnce(published[i])

\* C2 without sentinel-bearing client addresses
C2_PlainCountAndOnce == PlainAddresses => C2_CountAndOnce

\* every row of the published tensor p was submitted by the client and under
\* the request id p is addressed to
OwnRows(p) ==
    /\ KeyOf(p) \in DOMAIN accepted
    /\ \A j \in 1..Len(p.X) : p.X[j].row_of.c = p.to /\ p.X[j].row_of.r = p.req_id

\* C4: every published tensor is addressed to the client and request id of
\* the request that created its job, and holds no row submitted under
\* another job
C4_NoCrossDelivery == \A i \in Delivered : OwnRows(published[i])

\* C4 without sentinel-bearing client addresses
C4_PlainNoCrossDelivery == PlainAddresses => C4_NoCrossDelivery

\* C3: when the ventilator handles a batch of more than max_batch_size items,
\* the chunks it pushes are contiguous slices of the batch of 1..max_batch_size
\* items each, pushed in increasing offset order, labelled with their starting
\* offset, and cover every index of the batch exactly once (every pass of the
\* loop advances s_idx by at least one item, so the loop ends)
C3_Partition ==
    [][(EncodeStep /\ Len(request'[2].seqs) > max_batch_size)
         => IsPartition(request'[2].seqs, JobIdOf(request'[1], request'[3]), Pushed)]_vars

\* C3 witness: a batch of 2 * max_batch_size + 1 items was pushed as three
\* chunks of sizes max_batch_size, max_batch_size and 1
C3_Witness ==
    /\ Len(request) = 3
    /\ request[2].kind = "list"
    /\ Len(request[2].seqs) = 2 * max_batch_size + 1
    /\ Len(backend) >= 3
    /\ LET n == Len(backend)
       IN  /\ Len(backend[n - 2].msg) = max_batch_size
           /\ Len(backend[n - 1].msg) = max_batch_size
           /\ Len(backend[n].msg) = 1
           /\ backend[n].id = PartialJobId(JobIdOf(request[1], request[3]), 2 * max_batch_size)

\* the job id under which the sink files the worker message msg
FiledUnder(msg) == Split(msg.id, "@")[1]

\* the step is the sink's receiver branch on the message at the head of
\* worker w's pipe
TakesResult(w) ==
    /\ sink_exc = "none"
    /\ receiver[w] # <<>>
    /\ receiver'[w] = Tail(receiver[w])

\* the NEW_JOB message of job_id is in flight on the pair socket
RegistrationInFlight(job_id) ==
    \E i \in 1..Len(pair) :
        /\ pair[i].msg_type = new_job
        /\ JobIdOf(pair[i].client_addr, pair[i].req_id) = job_id

\* the sink has published the tensor of job_id
PublishedJob(job_id) ==
    \E i \in Delivered : JobIdOf(published[i].to, published[i].req_id) = job_id

\* C5: a partial that the sink takes before its job's NEW_JOB is buffered:
\* the sink keeps running, the partial is in parts and counted in
\* received_count, and nothing is published in that step
C5_EarlyPartialBuffered ==
    [][\A w \in Workers :
        (TakesResult(w)
           /\ FiledUnder(Head(receiver[w])) \notin DOMAIN job_checksum
           /\ RegistrationInFlight(FiledUnder(Head(receiver[w]))))
        => /\ sink_exc' = "none"
           /\ HasKey(pending_result', FiledUnder(Head(receiver[w])))
           /\ Count(pending_checksum', FiledUnder(Head(receiver[w])))
                = Count(pending_checksum, FiledUnder(Head(receiver[w])))
                  + Len(Head(receiver[w]).X)
           /\ published' = published]_vars

\* nothing of the job of <<client, req_id>> is left in the backend or in a
\* worker's pipe
NoPartialInFlight(k) ==
    /\ \A i \in 1..Len(backend) : backend[i].msg[1].c # k[1] \/ backend[i].msg[1].r # k[2]
    /\ \A w \in Workers : \A i \in 1..Len(receiver[w]) :
         receiver[w][i].X[1].row_of.c # k[1] \/ receiver[w][i].X[1].row_of.r # k[2]

\* C6: a job whose partials have all reached the sink while its NEW_JOB is
\* still in flight is eventually published
C6_LateRegistrationCompletes ==
    \A k \in Submitters :
        (k \in DOMAIN accepted
           /\ NoPartialInFlight(k)
           /\ RegistrationInFlight(JobIdOf(k[1], k[2])))
        ~> PublishedJob(JobIdOf(k[1], k[2]))

\* C7: every encode request the ventilator registers is eventually published
C7_EveryJobPublished ==
    \A k \in Submitters :
        (k \in DOMAIN accepted) ~> PublishedJob(JobIdOf(k[1], k[2]))

\* the job of the published message p has an entry in no sink table
Dropped(p, pr, pc, jc) ==
    LET job_id == JobIdOf(p.to, p.req_id)
    IN  /\ ~HasKey(pr, job_id)
        /\ job_id \notin DOMAIN pc
        /\ job_id \notin DOMAIN jc

C9_LatePartialIgnored ==
    [][\A w \in Workers :
        (TakesResult(w) /\ PublishedJob(FiledUnder(Head(receiver[w]))))
        => /\ published' = published
           /\ sink_exc' = "none"
           /\ ~HasKey(pending_result', FiledUnder(Head(receiver[w])))
           /\ FiledUnder(Head(receiver[w])) \notin DOMAIN pending_checksum'
           /\ FiledUnder(Head(receiver[w])) \notin DOMAIN job_checksum']_vars

\* the step is a turn of the ventilator's loop
VentStep == <<num_req, vent_err, num_cfg>>' # <<num_req, vent_err, num_cfg>>

\* the step is the sink's frontend branch on a SHOW_CONFIG message
TakesConfig ==
    /\ sink_exc = "none"
    /\ pair # <<>>
    /\ pair' = Tail(pair)
    /\ Head(pair).msg_type = show_config

sinkTables == <<pending_result, pending_checksum, job_checksum>>

\* C10: a SHOW_CONFIG request changes no job table and pushes no chunk; the
\* ventilator forwards it on the pair socket, and the sink publishes one
\* config reply to the same client_addr with the same req_id
C10_ShowConfig ==
    [][/\ (VentStep /\ Len(request') = 3 /\ request'[2].kind = "show_config")
            => /\ UNCHANGED sinkTables
               /\ UNCHANGED backend
               /\ Len(pair') = Len(pair) + 1
               /\ pair'[Len(pair')].msg_type = show_config
               /\ pair'[Len(pair')].client_addr = request'[1]
               /\ pair'[Len(pair')].req_id = request'[3]
       /\ TakesConfig
            => /\ UNCHANGED sinkTables
               /\ Len(published') = Len(published) + 1
               /\ published'[Len(published')].type = "config"
               /\ published'[Len(published')].to = Head(pair).client_addr
               /\ published'[Len(published')].req_id = Head(pair).req_id]_vars

\* C10 for request ids that int() accepts
C10_DecimalReqId ==
    [][/\ (VentStep /\ Len(request') = 3 /\ request'[2].kind = "show_config"
             /\ IsInt(request'[3]))
            => /\ UNCHANGED sinkTables
               /\ UNCHANGED backend
               /\ Len(pair') = Len(pair) + 1
               /\ pair'[Len(pair')].msg_type = show_config
               /\ pair'[Len(pair')].client_addr = request'[1]
               /\ pair'[Len(pair')].req_id = request'[3]
       /\ TakesConfig
            => /\ UNCHANGED sinkTables
               /\ Len(published') = Len(published) + 1
               /\ published'[Len(published')].type = "config"
               /\ published'[Len(published')].to = Head(pair).client_addr
               /\ published'[Len(published')].req_id = Head(pair).req_id]_vars

\* the step is the ventilator's ValueError handler on an envelope of other
\* than three frames
WrongFramesStep == err_log' # err_log /\ Len(request') # 3

\* the ventilator has logged an envelope of other than three frames
WrongFramesLogged == \E i \in 1..Len(err_log) : err_log[i] # 3

\* the step is a turn of the ventilator's loop on a three-frame envelope with
\* a list payload that gets past the request log line
ValidEncodeStep ==
    /\ num_req' # num_req
    /\ Len(request') = 3
    /\ request'[2].kind = "list"

\* the step registers the batch of request' at the sink and pushes its chunks
ServedNormally ==
    /\ num_req' = num_req + 1
    /\ pair' = Append(pair, NewJobMsg(request'[1], Len(request'[2].seqs), request'[3]))
    /\ backend' = backend \o Chunks(request'[2].seqs, JobIdOf(request'[1], request'[3]))

\* C11: an envelope of other than three frames is logged and dropped: no
\* NEW_JOB is sent, no chunk is pushed, the request counter and the job
\* history are unchanged; the loop goes on, and a valid encode request taken
\* after the drop is registered and pushed as usual
C11_WrongFramesDropped ==
    [][/\ WrongFramesStep
            => /\ err_log' = Append(err_log, Len(request'))
               /\ UNCHANGED <<pair, backend, num_req, num_cfg, accepted>>
               /\ UNCHANGED sinkVars
               /\ UNCHANGED shutdownVars
       /\ (WrongFramesLogged /\ ValidEncodeStep) => ServedNormally]_vars

\* C11 witness: a two-frame envelope was logged, and the encode request of
\* max_batch_size + 1 items taken after it is the only one counted, is
\* registered and is pushed as two chunks
C11_Witness ==
    /\ err_log = <<2>>
    /\ num_req = 1
    /\ Len(request) = 3
    /\ request[2].kind = "list"
    /\ Len(request[2].seqs) = max_batch_size + 1
    /\ <<request[1], request[3]>> \in DOMAIN accepted
    /\ pair = <<NewJobMsg(request[1], max_batch_size + 1, request[3])>>
    /\ backend = Chunks(request[2].seqs, JobIdOf(request[1], request[3]))

\* the parts the sink holds for job_id
PartsOf(pr, job_id) ==
    IF HasKey(pr, job_id)
    THEN pr[CHOOSE i \in 1..Len(pr) : pr[i].job = job_id].parts
    ELSE <<>>

\* the entries of job_id in parts, received_count and expected_count
JobEntry(job_id, pr, pc, jc) ==
    <<HasKey(pr, job_id), PartsOf(pr, job_id),
      job_id \in DOMAIN pc, Count(pc, job_id),
      job_id \in DOMAIN jc, Count(jc, job_id)>>

\* the step is the sink's frontend branch on the NEW_JOB message of job_id
TakesNewJob(job_id) ==
    /\ sink_exc = "none"
    /\ pair # <<>>
    /\ pair' = Tail(pair)
    /\ Head(pair).msg_type = new_job
    /\ JobIdOf(Head(pair).client_addr, Head(pair).req_id) = job_id

\* the step is the sink's receiver branch on a partial it files under job_id
TakesPartialOf(job_id) ==
    \E w \in Workers : TakesResult(w) /\ FiledUnder(Head(receiver[w])) = job_id

\* pairs of submitters with the same client address and different request ids
Siblings ==
    {kk \in Submitters \X Submitters : kk[1][1] = kk[2][1] /\ kk[1][2] # kk[2][2]}

\* among the messages pub, at most one tensor is addressed to k, and it holds
\* no row submitted under the request id of k's sibling other
OnceWithOwnReqId(pub, k, other) ==
    /\ \A i, j \in 1..Len(pub) :
         (pub[i].type = "ndarray" /\ pub[j].type = "ndarray"
            /\ KeyOf(pub[i]) = k /\ KeyOf(pub[j]) = k) => i = j
    /\ \A i \in 1..Len(pub) :
         (pub[i].type = "ndarray" /\ KeyOf(pub[i]) = k)
         => \A r \in 1..Len(pub[i].X) :
              ~(pub[i].X[r].row_of.c = other[1] /\ pub[i].X[r].row_of.r = other[2])

ReadAsPartialZero(id, job_id) ==
    /\ Split(id, "@")[1] = job_id
    /\ IsInt(PartialIdOf(id))
    /\ IntOf(PartialIdOf(id)) = 0

\* the chunks pushed in this step for the batch of request' are the one or
\* the two chunks of a batch of at most max_batch_size + 1 items
BoundaryChunks ==
    LET seqs == request'[2].seqs
        job_id == JobIdOf(request'[1], request'[3])
    IN  /\ Len(seqs) <= max_batch_size
             => /\ Pushed = <<[id |-> job_id, msg |-> seqs]>>
                /\ ReadAsPartialZero(Pushed[1].id, job_id)
        /\ Len(seqs) = max_batch_size + 1
             => /\ Len(Pushed) = 2
                /\ Pushed[1] = [id |-> job_id \o <<"@">> \o Dec(0),
                                msg |-> SubSeq(seqs, 1, max_batch_size)]
                /\ Pushed[2] = [id |-> job_id \o <<"@">> \o Dec(max_batch_size),
                                msg |-> SubSeq(seqs, max_batch_size + 1,
                                               max_batch_size + 1)]

\* C13: a batch of at most max_batch_size items is pushed as one chunk that
\* holds the whole batch under the bare job id, which the sink reads as
\* partial 0 of that job; a batch of max_batch_size + 1 items is pushed as
\* two chunks of max_batch_size items and of 1 item, labelled with the
\* offsets 0 and max_batch_size
C13_BoundaryChunks == [][EncodeStep => BoundaryChunks]_vars

\* the envelope taken in this step has no sentinel in its client address
PlainStep == request'[1] # ClientS

\* C13 for client addresses without a sentinel
C13_PlainBoundaryChunks == [][(EncodeStep /\ PlainStep) => BoundaryChunks]_vars

\* the byte string s holds a sentinel of the job-id framing
HasSentinel(s) == \E i \in 1..Len(s) : s[i] = "#" \/ s[i] = "@"

\* the number of occurrences of the byte c in s
Occurrences(s, c) == Cardinality({i \in 1..Len(s) : s[i] = c})

\* C14: a three-frame envelope whose client address or request id holds '#'
\* or '@' is rejected by the ventilator: its turn sends no NEW_JOB and pushes
\* no chunk, so that no chunk label the workers hand to the sink holds more
\* than one '#' or more than one '@'
C14_SentinelRejected ==
    [][/\ (VentStep /\ Len(request') = 3
             /\ (HasSentinel(request'[1]) \/ HasSentinel(request'[3])))
            => /\ pair' = pair
               /\ backend' = backend
       /\ \A i \in 1..Len(backend') :
            /\ Occurrences(backend'[i].id, "#") <= 1
            /\ Occurrences(backend'[i].id, "@") <= 1]_vars

\* C15: for every job that has both a received_count and an expected_count,
\* the received_count is at most the expected_count
C15_ReceivedAtMostExpected ==
    \A job_id \in DOMAIN pending_checksum \cap DOMAIN job_checksum :
        pending_checksum[job_id] <= job_checksum[job_id]

\* C15 without sentinel-bearing client addresses
C15_PlainReceivedAtMostExpected == PlainAddresses => C15_ReceivedAtMostExpected

\* the step is the sink's receiver branch on a partial whose rows take the
\* received_count of its registered job above the expected_count
OverflowStep(w) ==
    /\ TakesResult(w)
    /\ FiledUnder(Head(receiver[w])) \in DOMAIN job_checksum
    /\ Count(pending_checksum, FiledUnder(Head(receiver[w]))) + Len(Head(receiver[w]).X)
         > job_checksum[FiledUnder(Head(receiver[w]))]

\* job_id has received more rows than expected
Overflowed(job_id, pc, jc) ==
    /\ job_id \in DOMAIN pc
    /\ job_id \in DOMAIN jc
    /\ pc[job_id] > jc[job_id]

\* the job ids the sink can file a partial under
FiledJobIds ==
    {JobIdOf(k[1], k[2]) : k \in Submitters}
    \cup {FiledUnder([id |-> JobIdOf(k[1], k[2])]) : k \in Submitters}

C17_ExpectedPresent ==
    \A job_id \in Keys(pending_result) \cup DOMAIN pending_checksum :
        job_id \in DOMAIN job_checksum

\* C17 at the turns of the loop of a sink that runs
C17_RunningExpectedPresent == sink_exc = "none" => C17_ExpectedPresent

EmitsResult(w) == Len(receiver'[w]) > Len(receiver[w])

\* the step takes the chunk at the head of the backend and adds its result,
\* under the chunk's id and with one row per item, to the pipe of worker w
AnswersChunk(w) ==
    /\ backend # <<>>
    /\ backend' = Tail(backend)
    /\ Len(receiver'[w]) = Len(receiver[w]) + 1
    /\ SubSeq(receiver'[w], 1, Len(receiver[w])) = receiver[w]
    /\ receiver'[w][Len(receiver'[w])].id = Head(backend).id
    /\ Len(receiver'[w][Len(receiver'[w])].X) = Len(Head(backend).msg)
    /\ \A v \in Workers \ {w} : receiver'[v] = receiver[v]

\* C19: a worker sends a result to the sink only in the step in which it
\* receives a chunk from the backend, one result per chunk and under the
\* chunk's id; a chunk leaves the backend only in such a step
C19_ResultPerChunk ==
    [][/\ \A w \in Workers : EmitsResult(w) => AnswersChunk(w)
       /\ Len(backend') < Len(backend) => \E w \in Workers : AnswersChunk(w)]_vars

\* the step is a turn of the ventilator's loop
VentTurn ==
    <<vent_closed, num_req, vent_err, num_cfg>>' # <<vent_closed, num_req, vent_err, num_cfg>>

\* once the context is terminated the sink takes no message: its only step
\* is to leave run, and a sink that has left run does nothing
SinkExits ==
    /\ (context = "terminated" /\ sinkVars' # sinkVars)
         => /\ sink_exc = "none"
            /\ sink_exc' = "ContextTerminated"
            /\ UNCHANGED <<pending_checksum, pending_result, job_checksum, published>>
    /\ sink_exc = "ContextTerminated" => UNCHANGED sinkVars

\* once the ventilator has caught ContextTerminated its loop is over: it
\* takes no further turn
VentExits == vent_closed >= 1 => ~VentTurn

\* C20: when the context is terminated the ventilator's loop ends instead
\* of going on to receive, and so does the sink's loop
C20_LoopsExit == [][VentExits /\ SinkExits]_vars

\* C20 for the sink alone
C20_SinkExits == [][SinkExits]_vars

\* a ventilator turn on a three-frame envelope whose payload is neither
\* SHOW_CONFIG nor a JSON list of items
MalformedStep ==
    /\ VentStep
    /\ Len(request') = 3
    /\ request'[2].kind \notin {"list", "show_config"}

\* the turn counted a request
CountedStep == num_req' # num_req

\* C21: a three-frame envelope whose payload does not decode as a list of
\* items is logged and dropped with no state change: nothing is sent to the
\* sink or to the workers, the dispatch loop keeps running and the request
\* counter stays; the counter moves only for payloads that are lists of items
C21_MalformedDropped ==
    [][/\ MalformedStep
            => /\ vent_err' = vent_err + 1
               /\ UNCHANGED <<pair, backend, accepted, num_req>>
               /\ vent_exc' = "none"
       /\ CountedStep
            => /\ Len(request') = 3
               /\ request'[2].kind = "list"]_vars

\* C21, the part on what is sent: a malformed payload registers no job and
\* pushes no chunk, and a SHOW_CONFIG or wrong-frame-count turn is not counted
C21_NothingSentForMalformed ==
    [][/\ MalformedStep => UNCHANGED <<pair, backend, accepted>>
       /\ CountedStep
            => /\ Len(request') = 3
               /\ request'[2].kind # "show_config"]_vars

\* C21, the counter: a payload that is not JSON is logged and counted
C21_GarbageCounted ==
    [][(MalformedStep /\ request'[2].kind = "garbage")
            => /\ vent_err' = vent_err + 1
               /\ num_req' = num_req + 1
               /\ vent_exc' = "none"]_vars

\* C21, the loop: a JSON payload that is not a list is counted, not logged,
\* and ends the dispatch loop
C21_NumberEndsLoop ==
    [][(MalformedStep /\ request'[2].kind = "number")
            => /\ UNCHANGED <<vent_err, err_log>>
               /\ num_req' = num_req + 1
               /\ vent_exc' = "TypeError"]_vars

\* once the dispatch loop has ended, the ventilator takes no request
C21_EndedLoopTakesNothing ==
    [][vent_exc # "none" => ~VentTurn]_vars

\* the rows of the tensors a job holds in pending_result
RECURSIVE RowsHeld(_)
RowsHeld(parts) ==
    IF parts = <<>> THEN 0 ELSE Len(Head(parts).X) + RowsHeld(Tail(parts))

\* pending_result has one entry per key
OneEntryPerKey ==
    \A i, j \in 1..Len(pending_result) :
        pending_result[i].job = pending_result[j].job => i = j

\* C22: at every boundary of the sink's loop, pending_result and
\* pending_checksum have the same keys, and pending_checksum of each key is
\* the sum of the row counts of the tensors pending_result holds for it
C22_TablesAgree ==
    /\ OneEntryPerKey
    /\ Keys(pending_result) = DOMAIN pending_checksum
    /\ \A i \in 1..Len(pending_result) :
          /\ pending_result[i].job \in DOMAIN pending_checksum
          /\ pending_checksum[pending_result[i].job] = RowsHeld(pending_result[i].parts)

\* the running sink holds two tensors of one job, whose received count is the
\* sum of their rows
C22_Witness ==
    /\ sink_exc = "none"
    /\ \E i \in 1..Len(pending_result) :
          /\ Len(pending_result[i].parts) = 2
          /\ \A n \in 1..2 : Len(pending_result[i].parts[n].X) >= 1
          /\ pending_checksum[pending_result[i].job] = RowsHeld(pending_result[i].parts)
          /\ pending_checksum[pending_result[i].job] >= 2

\* ---------------------------------------------------------------- fairness
\* every loop keeps polling: a worker with a chunk to receive runs, the sink
\* handles a readable socket while it runs
FairSpec ==
    /\ Spec
    /\ \A w \in Workers : WF_vars(WorkerRun(w))
    /\ WF_vars(SinkRecvResult)
    /\ WF_vars(SinkRecvControl)

====
